---- MODULE Spec2Model ----
(***************************************************************************)
(* A model of poc-search-engines: the ingestion script (ingest_data.py),   *)
(* which embeds a catalog and reloads three search backends, and the query *)
(* page (app.py), which embeds a query, searches one backend and shows the *)
(* normalised hits.  The three backends and the embedding provider are     *)
(* external services: each call to one either succeeds with its documented *)
(* effect or raises.                                                       *)
(***************************************************************************)
EXTENDS Integers, Sequences, FiniteSets, TLC

(***************************************************************************)
(* Bounds of the model.                                                    *)
(***************************************************************************)
MaxRecords == 2     \* longest catalog
MaxRuns == 2        \* runs of the ingestion script in a row
MaxOldDocs == 1     \* documents a collection may hold before the first run

(***************************************************************************)
(* Values.                                                                 *)
(***************************************************************************)
\* The vectors the embedding provider may answer with.
Vectors == {<<0, 1>>, <<-1, 10>>}

\* The embedding provider: a function from texts to vectors that the program
\* does not know.
Providers(texts) == [texts -> Vectors]

\* One catalog record of assets/programs.json.
SourceRecord(n) ==
    [title |-> <<"title", n>>,
     shortDescription |-> <<"short", n>>,
     longDescription |-> <<"long", n>>,
     degreeImage |-> <<"image", n>>,
     detailPage |-> <<"page", n>>]

Records == {SourceRecord(n) : n \in 1..2}

RECURSIVE SeqsUpTo(_, _)
SeqsUpTo(S, n) ==
    IF n = 0 THEN {<<>>}
    ELSE LET shorter == SeqsUpTo(S, n - 1)
         IN shorter \cup {Append(s, x) : s \in {t \in shorter : Len(t) = n - 1}, x \in S}

Catalogs == SeqsUpTo(Records, MaxRecords)

Backends == {"qd", "es", "ts"}

Queries == {"", "computer science"}

VARIABLES
    provider                \* the embedding model behind embeddings.create

VARIABLES
    \* ingest_data.py
    program_data,           \* the catalog read from assets/programs.json
    data_with_embeddings,   \* the records with their embedding, in catalog order
    pc,                     \* the call the script makes next
    i,                      \* documents sent by the running insert loop
    uuid,                   \* identifiers handed out so far (uuid.uuid4)
    store,                  \* store[b]: the collection degree_programs of backend b
    embedCalls,             \* calls to the embedding provider in this run
    calls,                  \* the backend calls of this run, in order
    failed,                 \* the call whose exception ended this run
    atStart,                \* the three collections when this run started
    run                     \* runs started

ingestVars == <<program_data, data_with_embeddings, pc, i, uuid, store,
                embedCalls, calls, failed, atStart, run>>

VARIABLES
    \* app.py
    engine,                 \* the engine picked in the selectbox
    query,                  \* the text of the query field
    limit,                  \* the limit the search function is called with
    caller,                 \* "ui": the page's handler; "api": a direct call of search_*
    spc,                    \* where the request stands
    request,                \* the request sent to the backend
    response,               \* what the backend answered
    ret,                    \* what the search function returned or raised
    display,                \* what the page shows, in order
    qcalls                  \* the external calls of this request, in order

searchVars == <<engine, query, limit, caller, spc, request, response, ret,
                display, qcalls>>

vars == <<provider, ingestVars, searchVars>>

\* res = openai_client.embeddings.create(input=text, ...) ; res.data[0].embedding,
\* when the call does not raise
get_embedding(text) == provider[text]

(***************************************************************************)
(* The backends.  A collection is absent or holds a set of documents.      *)
(***************************************************************************)
Absent == [exists |-> FALSE, docs |-> {}]
Empty == [exists |-> TRUE, docs |-> {}]

(***************************************************************************)
(* ingest_data.py: the documents each loader builds.                       *)
(***************************************************************************)
\* models.PointStruct(id=..., vector=..., payload={...})
QdrantPoint(id, item) ==
    [id |-> id,
     vector |-> item.embedding,
     payload |-> [title |-> item.title,
                  url |-> item.detailPage,
                  shortDescription |-> item.shortDescription,
                  description |-> item.longDescription,
                  image |-> item.degreeImage]]

\* es_client.index(index=..., id=..., document=doc)
EsDoc(id, item) ==
    [id |-> id,
     document |-> [title |-> item.title,
                   url |-> item.detailPage,
                   shortDescription |-> item.shortDescription,
                   description |-> item.longDescription,
                   image |-> item.degreeImage,
                   embedding |-> item.embedding]]

\* TsDoc with a vector other than the one embedded for the record.
TsDocOtherVector(id, item) ==
    [id |-> id,
     title |-> item.title,
     url |-> item.detailPage,
     shortDescription |-> item.shortDescription,
     description |-> item.longDescription,
     image |-> item.degreeImage,
     embedding |-> CHOOSE v \in Vectors : v # item.embedding]

\* typesense documents.create(document=doc)
TsDoc(id, item) ==
    [id |-> id,
     title |-> item.title,
     url |-> item.detailPage,
     shortDescription |-> item.shortDescription,
     description |-> item.longDescription,
     image |-> item.degreeImage,
     embedding |-> item.embedding]

\* {**item, "embedding": embedding}
WithEmbedding(item, embedding) ==
    [title |-> item.title,
     shortDescription |-> item.shortDescription,
     longDescription |-> item.longDescription,
     degreeImage |-> item.degreeImage,
     detailPage |-> item.detailPage,
     embedding |-> embedding]

\* A document left by an earlier ingestion: one the loader of backend b built
\* then, under an identifier no later run hands out.
OldDoc(b, n) ==
    LET item == WithEmbedding(SourceRecord(0), <<0, 1>>)
    IN CASE b = "qd" -> QdrantPoint(0 - n, item)
         [] b = "es" -> EsDoc(0 - n, item)
         [] b = "ts" -> TsDoc(0 - n, item)

\* The collection of backend b before the first run: absent (k = -1), or
\* holding k documents.
InitialCollection(b, k) ==
    IF k < 0 THEN Absent
    ELSE [exists |-> TRUE, docs |-> {OldDoc(b, n) : n \in 1..k}]

(***************************************************************************)
(* ingest_data.py: the order of the script's calls.                        *)
(***************************************************************************)
\* AfterEmbed leaving the loop one record early: the loaders start while a
\* record has no embedding yet.
AfterEmbedEarly(n) == IF n + 1 < Len(program_data) THEN "embed" ELSE "save"

\* for item in program_data: ... ; then the dump to programs_with_embeddings.json
AfterEmbed(n) == IF n < Len(program_data) THEN "embed" ELSE "save"

\* QdAfterExists that keeps an existing collection and goes on to fill it.
QdAfterExistsAppend(exists) == IF exists THEN "qd_upsert" ELSE "qd_create"

\* if is_collection_exist: delete_collection(...) ; create_collection(...)
QdAfterExists(exists) == IF exists THEN "qd_delete" ELSE "qd_create"

\* for item in tqdm(data_with_embedding): es_client.index(...) ; indices.refresh(...)
EsAfterIndex(n) == IF n < Len(data_with_embeddings) THEN "es_index" ELSE "es_refresh"

\* EsAfterExists that keeps an existing index and goes on to fill it.
EsAfterExistsAppend(exists) == IF exists THEN EsAfterIndex(0) ELSE "es_create"

\* if es_client.indices.exists(...): indices.delete(...) ; indices.create(...)
EsAfterExists(exists) == IF exists THEN "es_delete" ELSE "es_create"

\* try: collections[...].delete() except: print(...) ; collections.create(...)
TsAfterDelete == "ts_create"

\* for item in tqdm(data_with_embedding): documents.create(...) ; end of the script
TsAfterInsert(n) == IF n < Len(data_with_embeddings) THEN "ts_insert" ELSE "done"

\* An uncaught exception ends the script.
Raise(call) ==
    /\ pc' = "aborted"
    /\ failed' = call

Called(call) == calls' = Append(calls, call)

(***************************************************************************)
(* app.py: values.                                                         *)
(***************************************************************************)
MaxHits == 2        \* most hits in one backend response
MaxLimit == 2       \* limits 0..MaxLimit are tried besides the default

DefaultLimit == 5
NumCandidates == 100

Engines == {"Qdrant", "Elasticsearch", "Typesense"}
Limits == (0..MaxLimit) \cup {DefaultLimit, NumCandidates + 1}
\* The native score of the hit about document 1, and of the one about document 2.
Scores == <<3, 0>>

\* The five text fields of a result, in the order the search functions read them.
FieldOrder == <<"title", "shortDescription", "description", "image", "url">>
Fields == {FieldOrder[n] : n \in 1..Len(FieldOrder)}

\* The key under which a hit holds its fields, and the key of its score.
Container(e) ==
    CASE e = "Qdrant" -> "payload"
      [] e = "Elasticsearch" -> "_source"
      [] e = "Typesense" -> "document"

ScoreKey(e) ==
    CASE e = "Qdrant" -> "score"
      [] e = "Elasticsearch" -> "_score"
      [] e = "Typesense" -> "vector_distance"

Has(d, k) == k \in DOMAIN d

NoKeys == <<>>      \* a dict without keys

\* A hit of engine e about document v with score s, the keys of `missing` absent.
Hit(e, v, s, missing) ==
    LET doc == [f \in Fields \ missing |-> <<f, v>>]
    IN [k \in {Container(e), ScoreKey(e)} \ missing |->
            IF k = Container(e) THEN doc ELSE s]

Hits(e) ==
    {Hit(e, v, Scores[v], m) : v \in 1..Len(Scores),
                               m \in {{}} \cup {{k} : k \in Fields \cup {Container(e), ScoreKey(e)}}}

\* What a backend may answer: a ranked list of hits, or an answer without one.
Responses(e) ==
    CASE e = "Qdrant" ->
            {[points |-> hs] : hs \in SeqsUpTo(Hits(e), MaxHits)} \cup {NoKeys}
      [] e = "Elasticsearch" ->
            {[hits |-> [hits |-> hs]] : hs \in SeqsUpTo(Hits(e), MaxHits)}
                \cup {[hits |-> NoKeys], NoKeys}
      [] e = "Typesense" ->
            {[results |-> <<[hits |-> hs]>>] : hs \in SeqsUpTo(Hits(e), MaxHits)}
                \cup {[results |-> <<[code |-> 404, error |-> "Not found"]>>],
                      [results |-> <<>>], NoKeys}

(***************************************************************************)
(* app.py: strings.  A string is the sequence of its pieces: a literal      *)
(* fragment is one piece, a formatted number one piece per character.       *)
(***************************************************************************)
Digits == <<"0", "1", "2", "3", "4", "5", "6", "7", "8", "9">>

\* str(n) of an integer
RECURSIVE Str(_)
Str(n) ==
    IF n < 0 THEN <<"-">> \o Str(0 - n)
    ELSE IF n < 10 THEN <<Digits[n + 1]>>
    ELSE Str(n \div 10) \o <<Digits[(n % 10) + 1]>>

\* sep.join(parts)
RECURSIVE Join(_, _)
Join(sep, parts) ==
    IF parts = <<>> THEN <<>>
    ELSE IF Len(parts) = 1 THEN parts[1]
    ELSE parts[1] \o <<sep>> \o Join(sep, Tail(parts))

\* VectorQuery with the clause's k written as the default limit, not the limit
\* of the call.
VectorQueryDefaultK(embedding, k) ==
    <<"embedding:([">>
        \o Join(",", [n \in 1..Len(embedding) |-> Str(embedding[n])])
        \o <<"], k:">> \o Str(DefaultLimit) \o <<")">>

\* f"embedding:([{','.join(map(str, embedding))}], k:{limit})"
VectorQuery(embedding, k) ==
    <<"embedding:([">>
        \o Join(",", [n \in 1..Len(embedding) |-> Str(embedding[n])])
        \o <<"], k:">> \o Str(k) \o <<")">>

(***************************************************************************)
(* app.py: the request each search function builds.                        *)
(***************************************************************************)
COLLECTION_NAME == "degree_programs"

\* qd_client.query_points(collection_name=..., query=..., limit=..., with_payload=True)
QdRequest(embedding, k) ==
    [collection_name |-> COLLECTION_NAME,
     query |-> embedding,
     limit |-> k,
     with_payload |-> TRUE]

\* es_client.search(index=COLLECTION_NAME, body=search_query)
EsRequest(embedding, k) ==
    [index |-> COLLECTION_NAME,
     body |-> [knn |-> [field |-> "embedding",
                        query_vector |-> embedding,
                        k |-> k,
                        num_candidates |-> NumCandidates],
               _source |-> <<"title", "description", "shortDescription", "image", "url">>]]

\* ts_client.multi_search.perform(search_request, {})
TsRequest(embedding, k) ==
    [searches |-> <<[collection |-> COLLECTION_NAME,
                     q |-> "*",
                     vector_query |-> VectorQuery(embedding, k),
                     per_page |-> k]>>]

BuildRequest(e, embedding, k) ==
    CASE e = "Qdrant" -> QdRequest(embedding, k)
      [] e = "Elasticsearch" -> EsRequest(embedding, k)
      [] e = "Typesense" -> TsRequest(embedding, k)

(***************************************************************************)
(* app.py: the list each search function builds from the response.         *)
(***************************************************************************)
Raised(kind, what) == [kind |-> "raised", error |-> <<kind, what>>]
Returned(list) == [kind |-> "ok", list |-> list]
NotCalled == [kind |-> "none"]

\* The first of the five fields, in the order the dict display reads them,
\* that d lacks.
FirstMissing(d) ==
    FieldOrder[CHOOSE n \in 1..Len(FieldOrder) :
                  /\ ~Has(d, FieldOrder[n])
                  /\ \A m \in 1..(n - 1) : Has(d, FieldOrder[m])]

Complete(d) == \A f \in Fields : Has(d, f)

Entry(d, score) ==
    [title |-> d["title"],
     shortDescription |-> d["shortDescription"],
     description |-> d["description"],
     image |-> d["image"],
     url |-> d["url"],
     score |-> score]

\* {"title": hit.payload["title"], ..., "score": hit.score}
QdEntry(hit) ==
    IF ~Has(hit, "payload") THEN Raised("AttributeError", "payload")
    ELSE IF ~Complete(hit["payload"]) THEN Raised("KeyError", FirstMissing(hit["payload"]))
    ELSE IF ~Has(hit, "score") THEN Raised("AttributeError", "score")
    ELSE Entry(hit["payload"], hit["score"])

\* EsEntry reading each field with a default (.get(field, "")) and so never
\* raising on an absent one.
EsEntryDefaulting(hit) ==
    LET src == IF Has(hit, "_source") THEN hit["_source"] ELSE NoKeys
    IN [title |-> IF Has(src, "title") THEN src["title"] ELSE "",
        shortDescription |-> IF Has(src, "shortDescription")
                             THEN src["shortDescription"] ELSE "",
        description |-> IF Has(src, "description") THEN src["description"] ELSE "",
        image |-> IF Has(src, "image") THEN src["image"] ELSE "",
        url |-> IF Has(src, "url") THEN src["url"] ELSE "",
        score |-> IF Has(hit, "_score") THEN hit["_score"] ELSE 0]

\* {"title": hit["_source"]["title"], ..., "score": hit["_score"]}
EsEntry(hit) ==
    IF ~Has(hit, "_source") THEN Raised("KeyError", "_source")
    ELSE IF ~Complete(hit["_source"]) THEN Raised("KeyError", FirstMissing(hit["_source"]))
    ELSE IF ~Has(hit, "_score") THEN Raised("KeyError", "_score")
    ELSE Entry(hit["_source"], hit["_score"])

\* {"title": hit["document"]["title"], ..., "score": hit.get("vector_distance", 0)}
TsEntry(hit) ==
    IF ~Has(hit, "document") THEN Raised("KeyError", "document")
    ELSE IF ~Complete(hit["document"]) THEN Raised("KeyError", FirstMissing(hit["document"]))
    ELSE Entry(hit["document"],
               IF Has(hit, "vector_distance") THEN hit["vector_distance"] ELSE 0)

IsRaised(x) == Has(x, "error")

\* Comprehension followed by a sort of the list on its scores, best first.
RECURSIVE InsertByScore(_, _)
InsertByScore(x, sorted) ==
    IF sorted = <<>> THEN <<x>>
    ELSE IF x.score >= Head(sorted).score THEN <<x>> \o sorted
    ELSE <<Head(sorted)>> \o InsertByScore(x, Tail(sorted))

RECURSIVE SortByScore(_)
SortByScore(list) ==
    IF list = <<>> THEN <<>>
    ELSE InsertByScore(Head(list), SortByScore(Tail(list)))

ComprehensionSorted(entries) ==
    IF \E n \in 1..Len(entries) : IsRaised(entries[n])
    THEN entries[CHOOSE n \in 1..Len(entries) :
                    /\ IsRaised(entries[n])
                    /\ \A m \in 1..(n - 1) : ~IsRaised(entries[m])]
    ELSE Returned(SortByScore(entries))

\* [entry for hit in hits]: the list, or the exception of the first hit that raises.
Comprehension(entries) ==
    IF \E n \in 1..Len(entries) : IsRaised(entries[n])
    THEN entries[CHOOSE n \in 1..Len(entries) :
                    /\ IsRaised(entries[n])
                    /\ \A m \in 1..(n - 1) : ~IsRaised(entries[m])]
    ELSE Returned(entries)

\* query_points.points
QdHits(r) ==
    IF Has(r, "points") THEN Returned(r["points"])
    ELSE Raised("AttributeError", "points")

\* results["hits"]["hits"]
EsHits(r) ==
    IF ~Has(r, "hits") THEN Raised("KeyError", "hits")
    ELSE IF ~Has(r["hits"], "hits") THEN Raised("KeyError", "hits")
    ELSE Returned(r["hits"]["hits"])

\* results["results"][0].get("hits", [])
TsHits(r) ==
    IF ~Has(r, "results") THEN Raised("KeyError", "results")
    ELSE IF Len(r["results"]) = 0 THEN Raised("IndexError", "0")
    ELSE IF Has(r["results"][1], "hits") THEN Returned(r["results"][1]["hits"])
    ELSE Returned(<<>>)

\* search_qdrant, from the response on
QdParse(r) ==
    LET hits == QdHits(r)
    IN IF hits.kind = "raised" THEN hits
       ELSE Comprehension([n \in 1..Len(hits.list) |-> QdEntry(hits.list[n])])

\* search_elasticsearch, from the response on
EsParse(r) ==
    LET hits == EsHits(r)
    IN IF hits.kind = "raised" THEN hits
       ELSE Comprehension([n \in 1..Len(hits.list) |-> EsEntry(hits.list[n])])

\* search_typesense, from the response on
TsParse(r) ==
    LET hits == TsHits(r)
    IN IF hits.kind = "raised" THEN hits
       ELSE Comprehension([n \in 1..Len(hits.list) |-> TsEntry(hits.list[n])])

Parse(e, r) ==
    CASE e = "Qdrant" -> QdParse(r)
      [] e = "Elasticsearch" -> EsParse(r)
      [] e = "Typesense" -> TsParse(r)

(***************************************************************************)
(* app.py: the page.                                                       *)
(***************************************************************************)
\* BackendOf without the elif branch: every engine but Qdrant falls through to
\* Typesense.
BackendOfNoElif(e) == IF e = "Qdrant" THEN "qd" ELSE "ts"

\* if engine == "Qdrant": ... elif engine == "Elasticsearch": ... else: ...
BackendOf(e) ==
    IF e = "Qdrant" THEN "qd"
    ELSE IF e = "Elasticsearch" THEN "es"
    ELSE "ts"

\* One result of the list, as the page lays it out.
ShowResult(result) ==
    <<[st |-> "image", of |-> result.image],
      [st |-> "markdown", of |-> <<"### [title](url)", result.title,
                                   <<"https://asuonline.asu.edu", result.url>>>>],
      [st |-> "html", of |-> result.shortDescription],
      [st |-> "markdown", of |-> <<"*scpre: {:.4f}*", result.score>>],
      [st |-> "markdown", of |-> <<"[Open in new tab](url)",
                                   <<"https://asuonline.asu.edu", result.url>>>>],
      [st |-> "markdown", of |-> "---"]>>

RECURSIVE ShowResults(_)
ShowResults(list) ==
    IF list = <<>> THEN <<>>
    ELSE ShowResult(Head(list)) \o ShowResults(Tail(list))

\* The body of the try block after the search returned, and the except block.
Show(e, r) ==
    IF r.kind = "raised"
    THEN <<[st |-> "error", of |-> <<"Error searching", e, r.error>>],
           [st |-> "info",
            of |-> "Make sure all services are running and data has been ingested..."]>>
    ELSE <<[st |-> "markdown", of |-> <<"### Results from", e>>],
           [st |-> "markdown", of |-> <<"Found {} results...", Len(r.list)>>]>>
         \o (IF r.list # <<>> THEN ShowResults(r.list)
             ELSE <<[st |-> "info", of |-> "No results found. Try a different query."]>>)

\* What the caller of the search function is left with.
Finish(r) ==
    /\ ret' = r
    /\ spc' = "shown"
    /\ display' = IF caller = "ui" THEN Show(engine, r) ELSE <<>>

SearchIdle ==
    /\ engine = "Qdrant"
    /\ query = ""
    /\ limit = DefaultLimit
    /\ caller = "ui"
    /\ spc = "idle"
    /\ request = NoKeys
    /\ response = NoKeys
    /\ ret = NotCalled
    /\ display = <<>>
    /\ qcalls = <<>>

\* The page is run with engine e picked and q in the query field; pressed
\* says whether the Search button started the run.
SearchButton(e, q, pressed) ==
    /\ spc = "idle"
    /\ engine' = e
    /\ query' = q
    /\ limit' = DefaultLimit
    /\ caller' = "ui"
    /\ IF q # ""
       THEN spc' = "embedding" /\ UNCHANGED display
       ELSE /\ spc' = "shown"
            /\ display' = IF pressed
                          THEN <<[st |-> "warning", of |-> "Please enter a search query..."]>>
                          ELSE <<>>
    /\ UNCHANGED <<request, response, ret, qcalls, ingestVars, provider>>

\* search_qdrant, search_elasticsearch or search_typesense is called with a limit.
CallSearch(e, q, k) ==
    /\ spc = "idle"
    /\ engine' = e
    /\ query' = q
    /\ limit' = k
    /\ caller' = "api"
    /\ spc' = "embedding"
    /\ UNCHANGED <<request, response, ret, display, qcalls, ingestVars, provider>>

\* embedding = get_embedding(query), then the request is sent
GetEmbedding ==
    /\ spc = "embedding"
    /\ \/ /\ request' = BuildRequest(engine, get_embedding(query), limit)
          /\ qcalls' = qcalls \o <<"openai", BackendOf(engine)>>
          /\ spc' = "searching"
          /\ UNCHANGED <<ret, display>>
       \/ /\ qcalls' = Append(qcalls, "openai")
          /\ Finish(Raised("ProviderError", "get_embedding"))
          /\ UNCHANGED request
    /\ UNCHANGED <<engine, query, limit, caller, response, ingestVars, provider>>

\* The backend answers, or the call raises; the function builds its list.
BackendAnswers ==
    /\ spc = "searching"
    /\ \/ \E r \in Responses(engine) :
            /\ response' = r
            /\ Finish(Parse(engine, r))
       \/ /\ Finish(Raised("BackendError", BackendOf(engine)))
          /\ UNCHANGED response
    /\ UNCHANGED <<engine, query, limit, caller, request, qcalls, ingestVars, provider>>

\* The page is run anew: what the last run showed is gone.
NewRun ==
    /\ spc = "shown"
    /\ spc' = "idle"
    /\ request' = NoKeys
    /\ response' = NoKeys
    /\ ret' = NotCalled
    /\ display' = <<>>
    /\ qcalls' = <<>>
    /\ UNCHANGED <<engine, query, limit, caller, ingestVars, provider>>

(***************************************************************************)
(* Init: a catalog, and each backend as some earlier state left it.        *)
(***************************************************************************)
InitIngest ==
    /\ SearchIdle
    /\ provider \in Providers({r.longDescription : r \in Records})
    /\ program_data \in Catalogs
    /\ data_with_embeddings = <<>>
    /\ pc = AfterEmbed(0)
    /\ i = 0
    /\ uuid = 0
    /\ \E k \in (-1)..MaxOldDocs : store = [b \in Backends |-> InitialCollection(b, k)]
    /\ embedCalls = 0
    /\ calls = <<>>
    /\ failed = "none"
    /\ atStart = store
    /\ run = 1

\* The script is not running: what SpecSearch starts from.
IngestIdle ==
    /\ program_data = <<>>
    /\ data_with_embeddings = <<>>
    /\ pc = "done"
    /\ i = 0
    /\ uuid = 0
    /\ store = [b \in Backends |-> Absent]
    /\ embedCalls = 0
    /\ calls = <<>>
    /\ failed = "none"
    /\ atStart = store
    /\ run = MaxRuns

(***************************************************************************)
(* __main__: the embedding loop and the dump of the embeddings.            *)
(***************************************************************************)
\* embedding = get_embedding(item["longDescription"]) ; data_with_embeddings.append(...)
Embed ==
    /\ pc = "embed"
    /\ embedCalls' = embedCalls + 1
    /\ \/ LET item == program_data[Len(data_with_embeddings) + 1]
          IN /\ data_with_embeddings' =
                    Append(data_with_embeddings,
                           WithEmbedding(item, get_embedding(item.longDescription)))
             /\ pc' = AfterEmbed(Len(data_with_embeddings) + 1)
             /\ UNCHANGED failed
       \/ /\ Raise("get_embedding")
          /\ UNCHANGED data_with_embeddings
    /\ UNCHANGED <<program_data, i, uuid, store, calls, atStart, run, searchVars, provider>>

\* json.dump(data_with_embeddings, file, ...)
Save ==
    /\ pc = "save"
    /\ \/ pc' = "qd_exists" /\ UNCHANGED failed
       \/ Raise("json.dump")
    /\ UNCHANGED <<program_data, data_with_embeddings, i, uuid, store,
                   embedCalls, calls, atStart, run, searchVars, provider>>

(***************************************************************************)
(* setup_qdrant                                                            *)
(***************************************************************************)
\* qd_client.collection_exists(collection_name=COLLECTION_NAME)
QdExists ==
    /\ pc = "qd_exists"
    /\ Called("qd.collection_exists")
    /\ \/ pc' = QdAfterExists(store["qd"].exists) /\ UNCHANGED failed
       \/ Raise("qd.collection_exists")
    /\ UNCHANGED <<program_data, data_with_embeddings, i, uuid, store,
                   embedCalls, atStart, run, searchVars, provider>>

\* qd_client.delete_collection(collection_name=COLLECTION_NAME)
QdDelete ==
    /\ pc = "qd_delete"
    /\ Called("qd.delete_collection")
    /\ \/ /\ store' = [store EXCEPT !["qd"] = Absent]
          /\ pc' = "qd_create"
          /\ UNCHANGED failed
       \/ /\ Raise("qd.delete_collection")
          /\ UNCHANGED store
    /\ UNCHANGED <<program_data, data_with_embeddings, i, uuid,
                   embedCalls, atStart, run, searchVars, provider>>

\* qd_client.create_collection(...): refused when the collection exists
QdCreate ==
    /\ pc = "qd_create"
    /\ Called("qd.create_collection")
    /\ \/ /\ ~store["qd"].exists
          /\ store' = [store EXCEPT !["qd"] = Empty]
          /\ pc' = "qd_upsert"
          /\ UNCHANGED failed
       \/ /\ Raise("qd.create_collection")
          /\ UNCHANGED store
    /\ UNCHANGED <<program_data, data_with_embeddings, i, uuid,
                   embedCalls, atStart, run, searchVars, provider>>

\* points = [PointStruct(...) for each item] ; qd_client.upsert(points=points)
QdUpsert ==
    /\ pc = "qd_upsert"
    /\ Called("qd.upsert")
    /\ LET n == Len(data_with_embeddings)
           points == {QdrantPoint(uuid + k, data_with_embeddings[k]) : k \in 1..n}
       IN /\ uuid' = uuid + n
          /\ \/ /\ store["qd"].exists
                /\ store' = [store EXCEPT !["qd"].docs =
                                {d \in @ : \A p \in points : p.id # d.id} \cup points]
                /\ pc' = "es_exists"
                /\ UNCHANGED failed
             \/ /\ Raise("qd.upsert")
                /\ UNCHANGED store
    /\ UNCHANGED <<program_data, data_with_embeddings, i, embedCalls, atStart, run, searchVars, provider>>

(***************************************************************************)
(* setup_elasticsearch                                                     *)
(***************************************************************************)
\* es_client.indices.exists(index=COLLECTION_NAME)
EsExists ==
    /\ pc = "es_exists"
    /\ Called("es.indices.exists")
    /\ \/ pc' = EsAfterExists(store["es"].exists) /\ UNCHANGED failed
       \/ Raise("es.indices.exists")
    /\ UNCHANGED <<program_data, data_with_embeddings, i, uuid, store,
                   embedCalls, atStart, run, searchVars, provider>>

\* es_client.indices.delete(index=COLLECTION_NAME)
EsDelete ==
    /\ pc = "es_delete"
    /\ Called("es.indices.delete")
    /\ \/ /\ store' = [store EXCEPT !["es"] = Absent]
          /\ pc' = "es_create"
          /\ UNCHANGED failed
       \/ /\ Raise("es.indices.delete")
          /\ UNCHANGED store
    /\ UNCHANGED <<program_data, data_with_embeddings, i, uuid,
                   embedCalls, atStart, run, searchVars, provider>>

\* es_client.indices.create(index=COLLECTION_NAME, body=mapping)
EsCreate ==
    /\ pc = "es_create"
    /\ Called("es.indices.create")
    /\ \/ /\ ~store["es"].exists
          /\ store' = [store EXCEPT !["es"] = Empty]
          /\ pc' = EsAfterIndex(0)
          /\ i' = 0
          /\ UNCHANGED failed
       \/ /\ Raise("es.indices.create")
          /\ UNCHANGED <<store, i>>
    /\ UNCHANGED <<program_data, data_with_embeddings, uuid,
                   embedCalls, atStart, run, searchVars, provider>>

\* es_client.index(index=COLLECTION_NAME, id=uuid.uuid4().hex, document=doc)
EsIndex ==
    /\ pc = "es_index"
    /\ Called("es.index")
    /\ uuid' = uuid + 1
    /\ \/ /\ store["es"].exists
          /\ store' = [store EXCEPT !["es"].docs =
                          {d \in @ : d.id # uuid + 1}
                              \cup {EsDoc(uuid + 1, data_with_embeddings[i + 1])}]
          /\ i' = i + 1
          /\ pc' = EsAfterIndex(i + 1)
          /\ UNCHANGED failed
       \/ /\ Raise("es.index")
          /\ UNCHANGED <<store, i>>
    /\ UNCHANGED <<program_data, data_with_embeddings, embedCalls, atStart, run, searchVars, provider>>

\* es_client.indices.refresh(index=COLLECTION_NAME)
EsRefresh ==
    /\ pc = "es_refresh"
    /\ Called("es.indices.refresh")
    /\ \/ pc' = "ts_delete" /\ UNCHANGED failed
       \/ Raise("es.indices.refresh")
    /\ UNCHANGED <<program_data, data_with_embeddings, i, uuid, store,
                   embedCalls, atStart, run, searchVars, provider>>

(***************************************************************************)
(* setup_typesense                                                         *)
(***************************************************************************)
\* try: typesense_client.collections[COLLECTION_NAME].delete() except: print(...)
\* The call deletes an existing collection or raises (the collection is not
\* there, or the call did not get through); the bare except swallows either.
TsDelete ==
    /\ pc = "ts_delete"
    /\ Called("ts.delete")
    /\ \/ /\ store["ts"].exists
          /\ store' = [store EXCEPT !["ts"] = Absent]
       \/ UNCHANGED store
    /\ pc' = TsAfterDelete
    /\ UNCHANGED <<program_data, data_with_embeddings, i, uuid,
                   embedCalls, failed, atStart, run, searchVars, provider>>

\* typesense_client.collections.create(schema=schema)
TsCreate ==
    /\ pc = "ts_create"
    /\ Called("ts.create")
    /\ \/ /\ ~store["ts"].exists
          /\ store' = [store EXCEPT !["ts"] = Empty]
          /\ pc' = TsAfterInsert(0)
          /\ i' = 0
          /\ UNCHANGED failed
       \/ /\ Raise("ts.create")
          /\ UNCHANGED <<store, i>>
    /\ UNCHANGED <<program_data, data_with_embeddings, uuid,
                   embedCalls, atStart, run, searchVars, provider>>

\* typesense_client.collections[COLLECTION_NAME].documents.create(document=doc)
TsInsert ==
    /\ pc = "ts_insert"
    /\ Called("ts.documents.create")
    /\ uuid' = uuid + 1
    /\ \/ /\ store["ts"].exists
          /\ \A d \in store["ts"].docs : d.id # uuid + 1
          /\ store' = [store EXCEPT !["ts"].docs =
                          @ \cup {TsDoc(uuid + 1, data_with_embeddings[i + 1])}]
          /\ i' = i + 1
          /\ pc' = TsAfterInsert(i + 1)
          /\ UNCHANGED failed
       \/ /\ Raise("ts.documents.create")
          /\ UNCHANGED <<store, i>>
    /\ UNCHANGED <<program_data, data_with_embeddings, embedCalls, atStart, run, searchVars, provider>>

(***************************************************************************)
(* The script is run again, after it ended or was ended by an exception.   *)
(***************************************************************************)
Rerun ==
    /\ pc \in {"done", "aborted"}
    /\ run < MaxRuns
    /\ run' = run + 1
    /\ data_with_embeddings' = <<>>
    /\ pc' = AfterEmbed(0)
    /\ i' = 0
    /\ embedCalls' = 0
    /\ calls' = <<>>
    /\ failed' = "none"
    /\ atStart' = store
    /\ UNCHANGED <<program_data, uuid, store, searchVars, provider>>

NextIngest ==
    \/ Embed \/ Save
    \/ QdExists \/ QdDelete \/ QdCreate \/ QdUpsert
    \/ EsExists \/ EsDelete \/ EsCreate \/ EsIndex \/ EsRefresh
    \/ TsDelete \/ TsCreate \/ TsInsert
    \/ Rerun

SpecIngest == InitIngest /\ [][NextIngest]_vars

(***************************************************************************)
(* The page, with the ingestion script not running.                        *)
(***************************************************************************)
InitSearch ==
    /\ provider \in Providers(Queries)
    /\ IngestIdle
    /\ SearchIdle

NextSearch ==
    \/ \E e \in Engines, q \in Queries, pressed \in BOOLEAN : SearchButton(e, q, pressed)
    \/ \E e \in Engines, q \in Queries, k \in Limits : CallSearch(e, q, k)
    \/ GetEmbedding
    \/ BackendAnswers
    \/ NewRun

SpecSearch == InitSearch /\ [][NextSearch]_vars

(***************************************************************************)
(* Properties of the search functions and of the page (SpecSearch).        *)
(***************************************************************************)
\* Whether the response holds a list of hits where the engine's client puts it.
HasHitList(e, r) ==
    CASE e = "Qdrant" -> "points" \in DOMAIN r
      [] e = "Elasticsearch" -> "hits" \in DOMAIN r /\ "hits" \in DOMAIN r["hits"]
      [] e = "Typesense" ->
            /\ "results" \in DOMAIN r
            /\ Len(r["results"]) > 0
            /\ "hits" \in DOMAIN r["results"][1]

HitList(e, r) ==
    CASE e = "Qdrant" -> r["points"]
      [] e = "Elasticsearch" -> r["hits"]["hits"]
      [] e = "Typesense" -> r["results"][1]["hits"]

\* The backend has answered the request of this run.
Answered == spc = "shown" /\ Len(qcalls) = 2 /\ ret # Raised("BackendError", BackendOf(engine))

HitHasFields(e, hit) ==
    /\ Container(e) \in DOMAIN hit
    /\ \A f \in Fields : f \in DOMAIN hit[Container(e)]

HitHasScore(e, hit) == ScoreKey(e) \in DOMAIN hit

\* C1: a response with N hits yields N entries, entry n built from hit n
\* (the backend's order kept) with hit n's native score unchanged; a
\* response whose hits are all whole yields a list, and an empty hit list
\* yields the empty list and no error.
C1_EntriesFollowHits ==
    (Answered /\ HasHitList(engine, response)) =>
        LET hs == HitList(engine, response)
        IN /\ (\A n \in 1..Len(hs) :
                    HitHasFields(engine, hs[n]) /\ HitHasScore(engine, hs[n]))
                => ret.kind = "ok"
           /\ ret.kind = "ok" =>
                /\ Len(ret.list) = Len(hs)
                /\ \A n \in 1..Len(hs) :
                      /\ \A f \in Fields : ret.list[n][f] = hs[n][Container(engine)][f]
                      /\ HitHasScore(engine, hs[n]) =>
                            ret.list[n].score = hs[n][ScoreKey(engine)]

\* C1's case: two whole hits of different documents and scores came back
\* from Elasticsearch and the function returned its list.
C1_Witness ==
    /\ Answered
    /\ engine = "Elasticsearch"
    /\ ret.kind = "ok"
    /\ Len(ret.list) = 2
    /\ ret.list[1].title # ret.list[2].title
    /\ ret.list[1].score < ret.list[2].score

\* C2: when a hit of the response lacks one of title, shortDescription,
\* description, image, url, the search ends in an error: no list is
\* returned, and the page shows the error and no result.
C2_MissingFieldRaises ==
    (Answered /\ HasHitList(engine, response)
        /\ \E n \in 1..Len(HitList(engine, response)) :
              ~HitHasFields(engine, HitList(engine, response)[n])) =>
        /\ ret.kind = "raised"
        /\ \A n \in 1..Len(display) : display[n].st \in {"error", "info"}

\* C2's case: the first hit is whole and the second lacks its image.
C2_Witness ==
    /\ Answered
    /\ caller = "ui"
    /\ HasHitList(engine, response)
    /\ Len(HitList(engine, response)) = 2
    /\ HitHasFields(engine, HitList(engine, response)[1])
    /\ Container(engine) \in DOMAIN HitList(engine, response)[2]
    /\ DOMAIN HitList(engine, response)[2][Container(engine)] = Fields \ {"image"}
    /\ ret.kind = "raised"

\* C3: when the response lacks its list of hits, or a hit lacks its score,
\* the search ends in an error (no default stands in for the absent part).
C3_MissingPartRaises ==
    (Answered
        /\ \/ ~HasHitList(engine, response)
           \/ \E n \in 1..Len(HitList(engine, response)) :
                 ~HitHasScore(engine, HitList(engine, response)[n])) =>
        ret.kind = "raised"

\* The k a Typesense vector clause asks for: the number written between
\* "], k:" and the closing parenthesis.
DigitValue(c) == (CHOOSE d \in 1..10 : Digits[d] = c) - 1

RECURSIVE Number(_)
Number(digits) ==
    IF Len(digits) = 1 THEN DigitValue(digits[1])
    ELSE 10 * Number(SubSeq(digits, 1, Len(digits) - 1)) + DigitValue(digits[Len(digits)])

ClauseK(clause) ==
    LET p == CHOOSE n \in 1..Len(clause) : clause[n] = "], k:"
    IN Number(SubSeq(clause, p + 1, Len(clause) - 1))

\* C7: the request sent asks for exactly `limit` results (Qdrant limit,
\* Elasticsearch knn k, Typesense clause k and per_page), and Elasticsearch's
\* num_candidates is 100 whatever the limit.
C7_RequestAsksForLimit ==
    (spc \in {"searching", "shown"} /\ Len(qcalls) = 2) =>
        CASE engine = "Qdrant" -> request.limit = limit
          [] engine = "Elasticsearch" ->
                /\ request.body.knn.k = limit
                /\ request.body.knn.num_candidates = 100
          [] engine = "Typesense" ->
                /\ Len(request.searches) = 1
                /\ ClauseK(request.searches[1].vector_query) = limit
                /\ request.searches[1].per_page = limit

\* C7's case: a Typesense request was sent with a limit above num_candidates.
C7_Witness ==
    /\ spc = "searching"
    /\ engine = "Typesense"
    /\ limit = 101
    /\ request.searches[1].per_page = 101

\* C8: for one submitted non-empty query the page calls the embedding
\* provider at most once and no backend but the selected one, at most once;
\* when the embedding call or the search fails, the page shows an error
\* naming the selected engine and no result.
C8_OneBackendNoRetry ==
    (caller = "ui" /\ query # "") =>
        /\ Cardinality({n \in 1..Len(qcalls) : qcalls[n] = "openai"}) <= 1
        /\ Cardinality({n \in 1..Len(qcalls) : qcalls[n] \in Backends}) <= 1
        /\ \A n \in 1..Len(qcalls) :
              qcalls[n] \in Backends =>
                  qcalls[n] = [Qdrant |-> "qd", Elasticsearch |-> "es",
                               Typesense |-> "ts"][engine]
        /\ (spc = "shown" /\ ret.kind = "raised") =>
              /\ Len(display) = 2
              /\ display[1].st = "error"
              /\ display[1].of[2] = engine
              /\ display[2].st = "info"

\* C8's case: the search of Elasticsearch failed and the page shows the error.
C8_Witness ==
    /\ caller = "ui"
    /\ spc = "shown"
    /\ engine = "Elasticsearch"
    /\ qcalls = <<"openai", "es">>
    /\ ret.kind = "raised"
    /\ display[1].st = "error"

(***************************************************************************)
(* Properties of the ingestion script (SpecIngest).                        *)
(***************************************************************************)
DeleteCall == [qd |-> "qd.delete_collection", es |-> "es.indices.delete", ts |-> "ts.delete"]
CreateCall == [qd |-> "qd.create_collection", es |-> "es.indices.create", ts |-> "ts.create"]
InsertCall == [qd |-> "qd.upsert", es |-> "es.index", ts |-> "ts.documents.create"]
\* The last call of each loader.
LastCall == [qd |-> "qd.upsert", es |-> "es.indices.refresh", ts |-> "ts.documents.create"]

CallsOf(call) == {n \in 1..Len(calls) : calls[n] = call}

\* The call was made in this run and did not raise.
Succeeded(call) == CallsOf(call) # {} /\ failed # call

\* The loader of backend b ran to its end in this run.
Loaded(b) ==
    IF b = "ts" THEN pc = "done"
    ELSE Succeeded(LastCall[b])

\* The fields and the vector of a stored document, whatever the backend.
Stored(b, d) ==
    CASE b = "qd" -> [title |-> d.payload.title, url |-> d.payload.url,
                      shortDescription |-> d.payload.shortDescription,
                      description |-> d.payload.description,
                      image |-> d.payload.image, embedding |-> d.vector]
      [] b = "es" -> d.document
      [] b = "ts" -> [title |-> d.title, url |-> d.url,
                      shortDescription |-> d.shortDescription,
                      description |-> d.description,
                      image |-> d.image, embedding |-> d.embedding]

\* What the catalog record item, with the vector the provider gave for it,
\* is to be stored as.
Expected(item) ==
    [title |-> item.title, url |-> item.detailPage,
     shortDescription |-> item.shortDescription,
     description |-> item.longDescription,
     image |-> item.degreeImage, embedding |-> item.embedding]

\* C4: whenever a loader has run to its end, whatever the collection held
\* before (nothing, old documents, the documents of an earlier run), the
\* collection holds exactly as many documents as the catalog has records.
C4_ReloadReplaces ==
    \A b \in Backends :
        Loaded(b) =>
            /\ store[b].exists
            /\ Cardinality(store[b].docs) = Len(program_data)

\* C4's case: a second run over a catalog of two records has ended, each
\* collection having held the two documents of the first run.
C4_Witness ==
    /\ run = 2
    /\ pc = "done"
    /\ Len(program_data) = 2
    /\ \A b \in Backends :
          Cardinality(atStart[b].docs) = 2 /\ Cardinality(store[b].docs) = 2

\* C5: when, in a run over a catalog that is not empty, the creation of one
\* backend's collection fails, the loaders of the other two backends have
\* run to their end and loaded every record once the script has ended.
C5_OtherLoadersStillRun ==
    \A b \in Backends :
        (pc = "aborted" /\ failed = CreateCall[b] /\ Len(program_data) > 0) =>
            \A other \in Backends \ {b} :
                /\ Loaded(other)
                /\ Cardinality(store[other].docs \ atStart[other].docs) = Len(program_data)

\* C6: the provider is called once per record embedded, so R times and no
\* more in a run that got to the loaders, and each loader that ran to its
\* end stored, for every record, the vector that call returned.
C6_OneEmbeddingPerRecord ==
    /\ embedCalls <= Len(program_data)
    /\ failed # "get_embedding" => embedCalls = Len(data_with_embeddings)
    /\ \A k \in 1..Len(data_with_embeddings) :
          data_with_embeddings[k].embedding = provider[program_data[k].longDescription]
    /\ calls # <<>> => embedCalls = Len(program_data)
    /\ \A b \in Backends :
          Loaded(b) =>
              /\ \A k \in 1..Len(data_with_embeddings) :
                    \E d \in store[b].docs : Stored(b, d) = Expected(data_with_embeddings[k])
              /\ \A d \in store[b].docs :
                    \E k \in 1..Len(data_with_embeddings) :
                        Stored(b, d) = Expected(data_with_embeddings[k])

\* C6's case: a run over two records, embedded to different vectors, has ended.
C6_Witness ==
    /\ pc = "done"
    /\ Len(program_data) = 2
    /\ embedCalls = 2
    /\ data_with_embeddings[1].embedding # data_with_embeddings[2].embedding
    /\ \A b \in Backends : Cardinality(store[b].docs) = 2

\* C9: in each loader the deletion comes before the creation and the
\* creation before every insertion; an insertion is only made after the
\* creation succeeded; a deletion fails only on a collection that was there
\* (Typesense's never ends the run); and once the creation has succeeded the
\* collection holds no document it held when the run started.
C9_DeleteCreateInsert ==
    \A b \in Backends :
        /\ \A d \in CallsOf(DeleteCall[b]), c \in CallsOf(CreateCall[b]) : d < c
        /\ \A c \in CallsOf(CreateCall[b]), n \in CallsOf(InsertCall[b]) : c < n
        /\ Cardinality(CallsOf(DeleteCall[b])) <= 1
        /\ Cardinality(CallsOf(CreateCall[b])) <= 1
        /\ CallsOf(InsertCall[b]) # {} => Succeeded(CreateCall[b])
        /\ failed = DeleteCall[b] => (b # "ts" /\ atStart[b].exists)
        /\ (~atStart[b].exists /\ CallsOf(DeleteCall[b]) # {}) =>
              (b = "ts" /\ (pc = "ts_create" \/ CallsOf(CreateCall[b]) # {}))
        /\ Succeeded(CreateCall[b]) =>
              /\ store[b].exists
              /\ store[b].docs \cap atStart[b].docs = {}
              /\ Cardinality(store[b].docs) <= Len(data_with_embeddings)

\* C9's case: Typesense's collection held a document, was deleted and
\* created anew, and the first document of this run is in it.
C9_Witness ==
    /\ atStart["ts"].docs # {}
    /\ Len(calls) >= 3
    /\ calls[Len(calls) - 2] = "ts.delete"
    /\ calls[Len(calls) - 1] = "ts.create"
    /\ calls[Len(calls)] = "ts.documents.create"
    /\ failed = "none"
    /\ Cardinality(store["ts"].docs) = 1

\* C10: as long as a record of the catalog has no embedding yet, and so when
\* the embedding call failed, no backend call has been made and the three
\* collections are as they were when the run started.
C10_EmbeddingsFirst ==
    Len(data_with_embeddings) < Len(program_data) =>
        /\ calls = <<>>
        /\ store = atStart

\* C10's case: in a second run the embedding of the second record failed;
\* the collections still hold what the first run loaded.
C10_Witness ==
    /\ run = 2
    /\ pc = "aborted"
    /\ failed = "get_embedding"
    /\ Len(data_with_embeddings) = 1
    /\ Len(program_data) = 2
    /\ \A b \in Backends : Cardinality(store[b].docs) = 2

====
